---------------------------- MODULE Spec2Model ----------------------------
(***************************************************************************)
(* revoco: the command loop of src/revoco.c (configure), the argument      *)
(* decoder (onearg, twoargs, nargs), the report writers and readers        *)
(* (send_report, query_report, mx_cmd, mx_query).                          *)
(*                                                                         *)
(* A C string is a sequence of one-character strings.  A u8 is a number    *)
(* in 0..255; every store into a u8 is taken modulo 256.  The response     *)
(* buffer of a query is a function over the C indices 0..5.                *)
(***************************************************************************)
EXTENDS Integers, Sequences, FiniteSets, TLC

VARIABLES pc, i, first_byte, argvi, perm, arg1, arg2, err,
          io, sent, rdlen, res, top, out

vars == <<pc, i, first_byte, argvi, perm, arg1, arg2, err,
          io, sent, rdlen, res, top, out>>

(***************************************************************************)
(* Bounds of the model.                                                    *)
(***************************************************************************)
\* the most command tokens of one invocation (argc - 1)
MaxArgs == 2
\* the longest argument text built from the alphabet ArgChars
MaxArgLen == 4
\* the largest number written out in decimal in a generated argument text
MaxNum == 51

(***************************************************************************)
(* C strings and 8-bit stores.                                             *)
(***************************************************************************)
u8(n) == n % 256

\* strncmp(a, b, Len(b)) == 0 for a literal b
strneq(a, b) == Len(a) >= Len(b) /\ SubSeq(a, 1, Len(b)) = b

\* strcmp(a, b) == 0
streq(a, b) == a = b

\* the string from its k-th character on (the pointer str + k)
Skip(s, k) == SubSeq(s, k + 1, Len(s))

S_temp == <<"t", "e", "m", "p", "-">>
S_free == <<"f", "r", "e", "e">>
S_click == <<"c", "l", "i", "c", "k">>
S_manual == <<"m", "a", "n", "u", "a", "l">>
S_auto == <<"a", "u", "t", "o">>
S_soft_free == <<"s", "o", "f", "t", "-", "f", "r", "e", "e">>
S_soft_click == <<"s", "o", "f", "t", "-", "c", "l", "i", "c", "k">>
S_reconnect == <<"r", "e", "c", "o", "n", "n", "e", "c", "t">>
S_mode == <<"m", "o", "d", "e">>
S_battery == <<"b", "a", "t", "t", "e", "r", "y">>
S_raw == <<"r", "a", "w">>
S_query == <<"q", "u", "e", "r", "y">>
S_sleep == <<"s", "l", "e", "e", "p">>

(***************************************************************************)
(* strtol(s, &end, 0): white space, a sign, then base 16 after "0x" when a *)
(* hexadecimal digit follows, base 8 after "0", base 10 otherwise.  The    *)
(* result is the number and the count of characters consumed (0: no        *)
(* conversion, end = s).  The texts of the model are too short to reach    *)
(* LONG_MAX.                                                               *)
(***************************************************************************)
DigitOf(c) ==
    CASE c = "0" -> 0 [] c = "1" -> 1 [] c = "2" -> 2 [] c = "3" -> 3
      [] c = "4" -> 4 [] c = "5" -> 5 [] c = "6" -> 6 [] c = "7" -> 7
      [] c = "8" -> 8 [] c = "9" -> 9
      [] c \in {"a", "A"} -> 10 [] c \in {"b", "B"} -> 11
      [] c \in {"c", "C"} -> 12 [] c \in {"d", "D"} -> 13
      [] c \in {"e", "E"} -> 14 [] c \in {"f", "F"} -> 15
      [] OTHER -> 99

isspace(c) == c \in {" ", "\t", "\n", "\r"}

RECURSIVE SkipSpace(_, _)
SkipSpace(s, k) ==
    IF k <= Len(s) /\ isspace(s[k]) THEN SkipSpace(s, k + 1) ELSE k

\* the digits of the base from position k on: the value and the next position
RECURSIVE Digits(_, _, _, _)
Digits(s, k, base, acc) ==
    IF k <= Len(s) /\ DigitOf(s[k]) < base
    THEN Digits(s, k + 1, base, acc * base + DigitOf(s[k]))
    ELSE [n |-> acc, k |-> k]

HasSign(s, k) == k <= Len(s) /\ s[k] \in {"+", "-"}

IsHex(s, k) ==
    /\ k + 2 <= Len(s)
    /\ s[k] = "0"
    /\ s[k + 1] \in {"x", "X"}
    /\ DigitOf(s[k + 2]) < 16

BaseAt(s, k) ==
    IF IsHex(s, k) THEN 16
    ELSE IF k <= Len(s) /\ s[k] = "0" THEN 8 ELSE 10

\* d: the digits found from position k on
strtol_result(k, neg, d) ==
    IF d.k = k
    THEN [n |-> 0, used |-> 0]
    ELSE [n |-> IF neg THEN 0 - d.n ELSE d.n, used |-> d.k - 1]

strtol_digits(s, k, base, neg) ==
    strtol_result(k, neg, Digits(s, k, base, 0))

strtol_at(s, k, neg) ==
    strtol_digits(s, IF IsHex(s, k) THEN k + 2 ELSE k, BaseAt(s, k), neg)

strtol_sign(s, k) ==
    strtol_at(s, IF HasSign(s, k) THEN k + 1 ELSE k,
              HasSign(s, k) /\ s[k] = "-")

strtol(s) == strtol_sign(s, SkipSpace(s, 1))

(***************************************************************************)
(* The argument decoder.  A fatal() ends the process: the result names the *)
(* message in err ("none": no fatal).                                      *)
(***************************************************************************)
\* a mutant of OutOfRange: the lower bound is not tested
OutOfRangeUpperOnly(n, min, max) == n > max

\* the range test of onearg
OutOfRange(n, min, max) == n < min \/ n > max

\* onearg after the prefix: t is the text after it, r what strtol made of t
onearg_number(t, r, def, min, max) ==
    IF r.used = 0
    THEN [err |-> "none", arg |-> u8(def), rest |-> t]
    ELSE IF OutOfRange(r.n, min, max)
    THEN [err |-> "out of range", arg |-> u8(r.n), rest |-> Skip(t, r.used)]
    ELSE [err |-> "none", arg |-> u8(r.n), rest |-> Skip(t, r.used)]

onearg(str, prefix, def, min, max) ==
    IF str = <<>>
    THEN [err |-> "none", arg |-> u8(def), rest |-> str]
    ELSE IF Head(str) # prefix
    THEN [err |-> "bad argument", arg |-> u8(def), rest |-> str]
    ELSE onearg_number(Tail(str), strtol(Tail(str)), def, min, max)

\* twoargs after both calls of onearg: r1 and r2 are their results
twoargs_result(r1, r2) ==
    IF r1.err # "none"
    THEN [err |-> r1.err, arg1 |-> r1.arg, arg2 |-> r1.arg]
    ELSE IF r2.err # "none"
    THEN [err |-> r2.err, arg1 |-> r1.arg, arg2 |-> r2.arg]
    ELSE IF r2.rest # <<>>
    THEN [err |-> "malformed argument", arg1 |-> r1.arg, arg2 |-> r2.arg]
    ELSE [err |-> "none", arg1 |-> r1.arg, arg2 |-> r2.arg]

\* the second call of onearg: its default is *arg1
twoargs_second(r1, min, max) ==
    twoargs_result(r1, onearg(r1.rest, ",", r1.arg, min, max))

twoargs(str, def, min, max) ==
    twoargs_second(onearg(str, "=", def, min, max), min, max)

\* the loop of nargs from the text p on, with n slots left.  Once p is
\* empty every remaining slot takes def and p stays empty, so the loop is
\* cut there: buf holds the slots filled before that, every later one is
\* def.
RECURSIVE nargs_loop(_, _, _, _, _, _, _, _)
nargs_slot(r, n, buf, cnt, def, min, max) ==
    IF r.err # "none"
    THEN [err |-> r.err, buf |-> buf, i |-> cnt + 1]
    ELSE nargs_loop(r.rest, ",", n - 1, Append(buf, r.arg), cnt + 1,
                    def, min, max)

nargs_loop(p, del, n, buf, cnt, def, min, max) ==
    IF n = 0 \/ p = <<>>
    THEN [err |-> IF p # <<>> THEN "malformed argument" ELSE "none",
          buf |-> buf, i |-> cnt]
    ELSE nargs_slot(onearg(p, del, def, min, max), n, buf, cnt,
                    def, min, max)

nargs(str, n, def, min, max) ==
    nargs_loop(str, "=", n, <<>>, 0, def, min, max)

(***************************************************************************)
(* The device channel.  wok and rok say whether write() and read()         *)
(* succeed; both functions report a failure and return normally.           *)
(***************************************************************************)
\* a mutant of send_report: a failed write ends the process
send_report_exits(id, buf, n, wok) ==
    [bytes |-> SubSeq(<<u8(id)>> \o buf, 1, n + 1), ok |-> wok,
     exits |-> ~wok]

\* write(fd, send_buf, n + 1) of the id followed by buf[0..n-1]
send_report(id, buf, n, wok) ==
    [bytes |-> SubSeq(<<u8(id)>> \o buf, 1, n + 1), ok |-> wok,
     exits |-> FALSE]

\* read(fd, buf, n + 1): the count asked for, and the highest index of buf
\* a full read stores at
query_report(id, n, rok) ==
    [req |-> n + 1, ok |-> rok, last |-> IF rok THEN n ELSE -1]

mx_cmd(b1, b2, b3, wok) ==
    send_report(16, <<first_byte, 128, 86, u8(b1), u8(b2), u8(b3)>>, 6, wok)

\* a mutant of bad_answer: only the first group of tests is made
bad_answer_first_group(r) ==
    (r[0] # 2 /\ r[0] # 1 /\ r[0] # 0) \/ r[1] # 129
        \/ (r[2] # 177 /\ r[2] # 8)

\* a mutant of bad_answer: byte 1 is not tested
bad_answer_any_byte1(r) ==
    /\ (r[0] \notin {0, 1, 2} \/ r[2] \notin {177, 8})
    /\ (r[0] \notin {0, 1, 2} \/ r[2] \notin {13, 8})

\* the test of mx_query on the response after the leading byte is dropped
bad_answer(r) ==
    /\ ((r[0] # 2 /\ r[0] # 1 /\ r[0] # 0) \/ r[1] # 129
        \/ (r[2] # 177 /\ r[2] # 8))
    /\ ((r[0] # 2 /\ r[0] # 1 /\ r[0] # 0) \/ r[1] # 129
        \/ (r[2] # 13 /\ r[2] # 8))

\* The caller's buffer res has 6 bytes.  buf is what res[0..5] holds after
\* the read (the device's bytes, or what the stack held when the read
\* failed); past is the byte the loop finds at res[6], beyond the buffer.
\* The loop res[k] = res[k+1], k = 0..5, reads index k + 1 and writes k.
StripEcho(buf, past) == [k \in 0..5 |-> IF k < 5 THEN buf[k + 2] ELSE past]

\* the highest index of res that the read or the loop touches
HighestIndex(q) == IF q.last > 5 + 1 THEN q.last ELSE 5 + 1

\* mx_query after its write w and its read q, r the stripped response
mx_query_result(w, q, r) ==
    [w |-> w, q |-> q, res |-> r, ret |-> IF bad_answer(r) THEN 0 ELSE 1,
     top |-> HighestIndex(q)]

mx_query(b1, wok, rok, buf, past) ==
    mx_query_result(send_report(16, <<first_byte, 129, b1, 0, 0, 0>>, 6, wok),
                    query_report(16, 6, rok), StripEcho(buf, past))

(***************************************************************************)
(* One iteration of the loop of configure: what the token does.            *)
(***************************************************************************)
NoRes == [k \in 0..5 |-> 0]

\* an iteration that has done nothing yet
Effect(p, a1, a2) ==
    [err |-> "none", perm |-> p, arg1 |-> a1, arg2 |-> a2, ops |-> <<>>,
     sent |-> <<>>, rdlen |-> 0, res |-> NoRes, top |-> -1, out |-> <<>>,
     exits |-> FALSE]

Fatal(e, t) ==
    [e EXCEPT !.err = t.err, !.arg1 = t.arg1, !.arg2 = t.arg2]

Wrote(e, w) ==
    [e EXCEPT !.ops = @ \o <<[op |-> "write", ok |-> w.ok]>>,
              !.sent = w.bytes, !.exits = w.exits]

Read(e, q) ==
    [e EXCEPT !.ops = @ \o <<[op |-> "read", ok |-> q.ok]>>,
              !.rdlen = q.req]

Args(e, t) == [e EXCEPT !.arg1 = t.arg1, !.arg2 = t.arg2]

Printed(e, text) == [e EXCEPT !.out = text]

\* a mutant of manual_cmd: the toggle opcode is never used
manual_cmd_always7(e, t, wok) ==
    IF t.err # "none" THEN Fatal(e, t)
    ELSE Wrote(Args(e, t), mx_cmd(e.perm + 7, t.arg1 * 16 + t.arg2, 0, wok))

\* the manual branch after twoargs returned t
manual_cmd(e, t, wok) ==
    IF t.err # "none" THEN Fatal(e, t)
    ELSE IF t.arg1 # t.arg2
    THEN Wrote(Args(e, t), mx_cmd(e.perm + 7, t.arg1 * 16 + t.arg2, 0, wok))
    ELSE Wrote(Args(e, t), mx_cmd(e.perm + 8, t.arg1, 0, wok))

do_manual(e, str, wok) == manual_cmd(e, twoargs(str, 0, 0, 15), wok)

auto_cmd(e, t, wok) ==
    IF t.err # "none" THEN Fatal(e, t)
    ELSE Wrote(Args(e, t), mx_cmd(e.perm + 5, t.arg1, t.arg2, wok))

do_auto(e, str, wok) == auto_cmd(e, twoargs(str, 0, 0, 50), wok)

soft_cmd(e, t, op, wok) ==
    IF t.err # "none" THEN Fatal(e, t)
    ELSE Wrote(Args(e, t), mx_cmd(op, t.arg1, t.arg2, wok))

do_soft(e, str, op, wok) == soft_cmd(e, twoargs(str, 0, 0, 255), op, wok)

\* a mutant of reconnect_cmd: the report is sent before the arguments are
\* looked at
reconnect_cmd_send_first(e, t, wok) ==
    IF t.err # "none"
    THEN Fatal(Wrote(e, send_report(16, <<255, 128, 178, 1, 0, 0>>, 6, wok)),
               t)
    ELSE Printed(Wrote(Args(e, t),
                       send_report(16, <<255, 128, 178, 1, 0, 0>>, 6, wok)),
                 <<"Reconnection initiated">>)

\* the reconnect branch after twoargs returned t
reconnect_cmd(e, t, wok) ==
    IF t.err # "none" THEN Fatal(e, t)
    ELSE Printed(Wrote(Args(e, t),
                       send_report(16, <<255, 128, 178, 1, 0, 0>>, 6, wok)),
                 <<"Reconnection initiated">>)

do_reconnect(e, str, wok) ==
    reconnect_cmd(e, twoargs(str, 0, 0, 255), wok)

Queried(e, m) ==
    [Read(Wrote(e, m.w), m.q) EXCEPT !.res = m.res, !.top = m.top]

\* the mode branch after mx_query returned m
mode_report(e, m) ==
    IF m.ret # 0
    THEN Printed(Queried(e, m),
                 IF m.res[5] % 2 = 1 THEN <<"click-by-click">>
                 ELSE <<"free spinning">>)
    ELSE Printed(Queried(e, m), <<"bad answer">>)

do_mode(e, wok, rok, buf, past) ==
    mode_report(e, mx_query(8, wok, rok, buf, past))

battery_status(b) ==
    CASE b = 48 -> "running on battery"
      [] b = 80 -> "charging"
      [] b = 144 -> "fully charged"
      [] OTHER -> "status"

\* the battery branch after mx_query returned m
battery_report(e, m) ==
    IF m.ret # 0
    THEN Printed(Queried(e, m),
                 <<"battery level", m.res[3], battery_status(m.res[5])>>)
    ELSE Printed(Queried(e, m), <<"bad answer">>)

do_battery(e, wok, rok, buf, past) ==
    battery_report(e, mx_query(13, wok, rok, buf, past))

\* send_report(handle, buf[0], buf + 1, n - 1) with the u8 n of nargs.  A
\* slot nargs did not fill holds def = 0.
raw_cmd(e, t, wok) ==
    IF t.err # "none" THEN [e EXCEPT !.err = t.err]
    ELSE Wrote(e, send_report(IF t.buf = <<>> THEN 0 ELSE t.buf[1],
                              Tail(t.buf \o <<0>>), u8(t.i) - 1, wok))

do_raw(e, str, wok) == raw_cmd(e, nargs(str, 256, 0, 0, 255), wok)

\* query_report(handle, arg1, buf, arg2) and the line printed after it
query_read(e, a1, a2, rok) ==
    Printed(Read([e EXCEPT !.arg1 = a1, !.arg2 = a2],
                 query_report(a1, a2, rok)),
            <<"report", a1, a2>>)

\* the query branch after twoargs returned t.  arg1 is a u8: the
\* comparison with -1 is the comparison of a number in 0..255 with -1
query_cmd(e, t, rok) ==
    IF t.err # "none" THEN Fatal(e, t)
    ELSE IF t.arg1 = -1 THEN query_read(e, 16, 6, rok)
    ELSE query_read(e, t.arg1, t.arg2, rok)

do_query(e, str, rok) == query_cmd(e, twoargs(str, -1, 0, 255), rok)

sleep_cmd(e, t) == IF t.err # "none" THEN Fatal(e, t) ELSE Args(e, t)

do_sleep(e, str) == sleep_cmd(e, twoargs(str, 1, 0, 255))

\* a mutant of PermInit: perm is set once, before the loop
PermStale(p) == p

\* u8 perm = 0x80 at the head of every iteration
PermInit(p) == 128

\* the chain of tests on cmd (argv[i] after "temp-") and on argv[i] = tok
branch(tok, cmd, e, wok, rok, buf, past) ==
    IF streq(cmd, S_free) THEN Wrote(e, mx_cmd(e.perm + 1, 0, 0, wok))
    ELSE IF streq(cmd, S_click) THEN Wrote(e, mx_cmd(e.perm + 2, 0, 0, wok))
    ELSE IF strneq(cmd, S_manual) THEN do_manual(e, Skip(cmd, 6), wok)
    ELSE IF strneq(cmd, S_auto) THEN do_auto(e, Skip(cmd, 4), wok)
    ELSE IF strneq(tok, S_soft_free) THEN do_soft(e, Skip(tok, 9), 3, wok)
    ELSE IF strneq(tok, S_soft_click) THEN do_soft(e, Skip(tok, 10), 4, wok)
    ELSE IF strneq(tok, S_reconnect) THEN do_reconnect(e, Skip(tok, 9), wok)
    ELSE IF strneq(tok, S_mode) THEN do_mode(e, wok, rok, buf, past)
    ELSE IF strneq(tok, S_battery) THEN do_battery(e, wok, rok, buf, past)
    ELSE IF strneq(tok, S_raw) THEN do_raw(e, Skip(tok, 3), wok)
    ELSE IF strneq(tok, S_query) THEN do_query(e, Skip(tok, 5), rok)
    ELSE IF strneq(tok, S_sleep) THEN do_sleep(e, Skip(tok, 5))
    ELSE [e EXCEPT !.err = "unknown option"]

\* the body of the loop for argv[i] = tok: perm and cmd, then the branch
dispatch(tok, p0, a1, a2, wok, rok, buf, past) ==
    IF strneq(tok, S_temp)
    THEN branch(tok, Skip(tok, 5), Effect(0, a1, a2), wok, rok, buf, past)
    ELSE branch(tok, tok, Effect(PermInit(p0), a1, a2), wok, rok, buf, past)

(***************************************************************************)
(* The state machine: main has opened the device (first_byte is 1 or 2)    *)
(* and calls configure with at least one command token; pc is "run"        *)
(* inside the loop, "fatal" after fatal() (exit(1)), "exit" after exit(0). *)
(* i counts the tokens handled so far.  argv is the environment's: each    *)
(* iteration draws its token, and the list ends (i reaches argc) at any    *)
(* point after the first token, at most after `most` tokens.               *)
(***************************************************************************)
\* the device calls of the iteration, each with the iteration's number and
\* its perm
Tag(e, k) ==
    [j \in 1..Len(e.ops) |->
        [i |-> k, op |-> e.ops[j].op, ok |-> e.ops[j].ok, perm |-> e.perm]]

\* the state after the iteration whose effect is e
Apply(tok, e) ==
    /\ pc' = IF e.err # "none" \/ e.exits THEN "fatal" ELSE "run"
    /\ i' = i + 1
    /\ argvi' = tok
    /\ perm' = e.perm
    /\ arg1' = e.arg1
    /\ arg2' = e.arg2
    /\ err' = e.err
    /\ io' = io \o Tag(e, i + 1)
    /\ sent' = e.sent
    /\ rdlen' = e.rdlen
    /\ res' = e.res
    /\ top' = e.top
    /\ out' = e.out

\* the loop goes on: i < argc, with at most `most` tokens in argv
Running(most) == pc = "run" /\ i < most

configure(tok, wok, rok, buf, past) ==
    /\ Apply(tok, dispatch(tok, perm, arg1, arg2, wok, rok, buf, past))
    /\ UNCHANGED first_byte

\* the loop is over: close_dev and exit(0)
Exit ==
    /\ pc = "run"
    /\ i >= 1
    /\ pc' = "exit"
    /\ UNCHANGED <<i, first_byte, argvi, perm, arg1, arg2, err,
                   io, sent, rdlen, res, top, out>>

Init ==
    /\ pc = "run"
    /\ i = 0
    /\ first_byte \in {1, 2}
    /\ argvi = <<>>
    /\ perm = 128
    /\ arg1 = 0
    /\ arg2 = 0
    /\ err = "none"
    /\ io = <<>>
    /\ sent = <<>>
    /\ rdlen = 0
    /\ res = NoRes
    /\ top = -1
    /\ out = <<>>

(***************************************************************************)
(* Spec: invocations of up to MaxArgs tokens from a list of command lines  *)
(* that takes every branch of the loop, against a device whose writes and  *)
(* reads may fail.                                                         *)
(***************************************************************************)
CmdTokens ==
    {S_free, S_temp \o S_free, S_click, S_temp \o S_click,
     S_manual, S_manual \o <<"=", "4">>, S_manual \o <<"=", "4", ",", "5">>,
     S_temp \o S_manual \o <<"=", "3">>, S_manual \o <<"=", "1", "6">>,
     S_manual \o <<"4">>, S_manual \o <<"=", "4", ",", "5", "x">>,
     S_auto, S_auto \o <<"=", "1", "0", ",", "2", "0">>,
     S_temp \o S_auto \o <<"=", "5">>, S_auto \o <<"=", "5", "1">>,
     S_soft_free \o <<"=", "3", ",", "7">>, S_soft_click,
     S_temp \o S_soft_free, S_reconnect, S_reconnect \o <<"=", "x">>,
     S_temp \o S_mode,
     S_raw, S_raw \o <<"=", "1", ",", "2", ",", "3">>,
     S_raw \o <<"=", "1", ",", "2", "5", "6">>,
     S_query, S_query \o <<"=", "1", "6", ",", "6">>,
     S_sleep, S_sleep \o <<"=", "2">>, S_sleep \o <<"=", "-", "1">>,
     <<"b", "o", "g", "u", "s">>}

\* what the response buffer may hold after the read: an echoed report id
\* and the first five bytes of the report
Responses ==
    {<<16, b0, b1, b2, 80, 0>> :
        b0 \in {1}, b1 \in {129, 128}, b2 \in {8, 13, 177, 0}}

\* the byte found past the end of the response buffer
PastBytes == {1, 48}

\* no response: the token reads nothing into a response buffer
NoBuf == <<0, 0, 0, 0, 0, 0>>

\* a token with at most one device call, which succeeds or fails
Command ==
    /\ Running(MaxArgs)
    /\ \E tok \in CmdTokens, ok \in BOOLEAN :
           configure(tok, ok, ok, NoBuf, 0)

\* a mode or battery query: a write, then a read
Query ==
    /\ Running(MaxArgs)
    /\ \E tok \in {S_mode, S_battery}, wok \in BOOLEAN, rok \in BOOLEAN,
          buf \in Responses, past \in PastBytes :
           configure(tok, wok, rok, buf, past)

Next == Command \/ Query \/ Exit

Spec == Init /\ [][Next]_vars

(***************************************************************************)
(* SpecArgs: one token with an argument text, over every text of up to     *)
(* MaxArgLen characters of ArgChars and every "=n" and "=n,m" in decimal.  *)
(***************************************************************************)
ArgChars == {"=", ",", "0", "1", "5", "-", "x"}

SeqsUpTo(S, n) == UNION {[1..k -> S] : k \in 0..n}

DecChar == <<"0", "1", "2", "3", "4", "5", "6", "7", "8", "9">>

RECURSIVE Dec(_)
Dec(n) ==
    IF n < 10 THEN <<DecChar[n + 1]>>
    ELSE Dec(n \div 10) \o <<DecChar[(n % 10) + 1]>>

Nums == 0..MaxNum \cup {255, 256}

ArgTexts ==
    SeqsUpTo(ArgChars, MaxArgLen)
    \cup {<<"=">> \o Dec(n) : n \in Nums}
    \cup {<<"=">> \o Dec(n) \o <<",">> \o Dec(m) : n \in Nums, m \in Nums}

ArgNames ==
    {S_manual, S_temp \o S_manual, S_auto, S_soft_free, S_query, S_sleep}

StepArgs ==
    /\ Running(1)
    /\ \E name \in ArgNames, text \in ArgTexts :
           configure(name \o text, TRUE, TRUE, NoBuf, 0)

NextArgs == StepArgs \/ Exit

SpecArgs == Init /\ [][NextArgs]_vars

(***************************************************************************)
(* SpecQuery: one mode or battery query, over responses in which each of   *)
(* the three tested bytes takes every value.                               *)
(***************************************************************************)
Byte == 0..255

WideResponses ==
    {<<16, b0, b1, b2, 80, 0>> :
        b0 \in Byte, b1 \in {129, 128}, b2 \in {8, 13, 177, 0}}
    \cup {<<16, b0, b1, b2, 80, 0>> :
        b0 \in {0, 1, 2, 3}, b1 \in Byte, b2 \in {8, 13, 177, 0}}
    \cup {<<16, b0, b1, b2, 80, 0>> :
        b0 \in {0, 1, 2, 3}, b1 \in {129, 128}, b2 \in Byte}

WidePastBytes == {1, 48, 144}

StepQuery ==
    /\ Running(1)
    /\ \E tok \in {S_mode, S_battery}, rok \in BOOLEAN,
          buf \in WideResponses, past \in WidePastBytes :
           configure(tok, TRUE, rok, buf, past)

NextQuery == StepQuery \/ Exit

SpecQuery == Init /\ [][NextQuery]_vars

(***************************************************************************)
(* The claims.  argvi is the token of the last iteration, cmd its text     *)
(* after "temp-".                                                          *)
(***************************************************************************)
HasTemp(tok) == strneq(tok, S_temp)

TokenBody(tok) == IF HasTemp(tok) THEN Skip(tok, 5) ELSE tok

IsFree(tok) == TokenBody(tok) = S_free
IsClick(tok) == TokenBody(tok) = S_click
IsManual(tok) == strneq(TokenBody(tok), S_manual)
IsAuto(tok) == strneq(TokenBody(tok), S_auto)
IsSoftFree(tok) == strneq(tok, S_soft_free)
IsSoftClick(tok) == strneq(tok, S_soft_click)
IsModeQuery(tok) == strneq(tok, S_mode)
IsBatteryQuery(tok) == strneq(tok, S_battery)

\* the 6-byte frame of the last write, after the report id
Frame == Tail(sent)

\* the device calls of iteration k, in the order made
OpsOf(trace, k) ==
    LET at == SelectSeq(trace, LAMBDA r : r.i = k)
    IN  [j \in 1..Len(at) |-> at[j].op]

\* C1 as stated: if a token fails to decode, no device I/O has occurred in
\* the invocation, not even for the tokens before the failing one.
C1_NoIOInInvocation == pc = "fatal" => io = <<>>

\* C1 amended: the token that fails to decode performs no device I/O and no
\* token after it is handled; the I/O of the tokens before it has occurred
\* and stands.
C1_FailingTokenNoIO == [][pc' = "fatal" => io' = io]_vars

\* a decode failure after an earlier token has written to the device
C1_Witness == pc = "fatal" /\ i = 2 /\ io # <<>> /\ err = "out of range"

\* the accepted subcodes of the query kind, as C2 states them
AcceptedSubcodes(tok) == IF IsModeQuery(tok) THEN {177, 8} ELSE {13, 8}

\* C2: after a mode or battery query the response is accepted if and only
\* if byte 0 is 0, 1 or 2, byte 1 is 0x81 and byte 2 is an accepted
\* subcode of the query that was issued ({0xb1, 0x08} for mode,
\* {0x0d, 0x08} for battery).
C2_KindDependent ==
    (i >= 1 /\ top >= 0) =>
        ((out # <<"bad answer">>) <=>
            (/\ res[0] \in {0, 1, 2}
             /\ res[1] = 129
             /\ res[2] \in AcceptedSubcodes(argvi)))

\* C2 amended: for the mode query and the battery query alike, the response
\* is accepted if and only if byte 0 is 0, 1 or 2, byte 1 is 0x81 and byte
\* 2 is one of 0xb1, 0x08, 0x0d: the test does not depend on the query.
C2_UnionForBothKinds ==
    (i >= 1 /\ top >= 0) =>
        ((out # <<"bad answer">>) <=>
            (/\ res[0] \in {0, 1, 2}
             /\ res[1] = 129
             /\ res[2] \in {177, 8, 13}))

\* a mode query that took a response with the battery subcode 0x0d
C2_Witness ==
    /\ i = 1
    /\ IsModeQuery(argvi)
    /\ res[0] = 2
    /\ res[1] = 129
    /\ res[2] = 13
    /\ out \in {<<"click-by-click">>, <<"free spinning">>}

\* the persistence bit the token asks for
PermOf(tok) == IF HasTemp(tok) THEN 0 ELSE 128

\* C3: the frame of a free, click, manual or auto token is {first_byte,
\* 0x80, 0x56, opcode, b2, b3} with opcode the base opcode (1, 2, 7 or 8,
\* 5) plus 0x80 exactly when this token has no temp- prefix, whatever the
\* tokens before it were; a soft-free or soft-click frame has opcode 3 or 4.
C3_Frames ==
    (i >= 1 /\ err = "none") =>
        /\ IsFree(argvi) =>
              Frame = <<first_byte, 128, 86, PermOf(argvi) + 1, 0, 0>>
        /\ IsClick(argvi) =>
              Frame = <<first_byte, 128, 86, PermOf(argvi) + 2, 0, 0>>
        /\ (IsManual(argvi) /\ arg1 # arg2) =>
              Frame = <<first_byte, 128, 86, PermOf(argvi) + 7,
                        arg1 * 16 + arg2, 0>>
        /\ (IsManual(argvi) /\ arg1 = arg2) =>
              Frame = <<first_byte, 128, 86, PermOf(argvi) + 8, arg1, 0>>
        /\ IsAuto(argvi) =>
              Frame = <<first_byte, 128, 86, PermOf(argvi) + 5, arg1, arg2>>
        /\ IsSoftFree(argvi) => Frame = <<first_byte, 128, 86, 3, arg1, arg2>>
        /\ IsSoftClick(argvi) => Frame = <<first_byte, 128, 86, 4, arg1, arg2>>

\* a persistent click written after a temp- token wrote
C3_Witness ==
    /\ i = 2
    /\ argvi = S_click
    /\ Len(io) = 2
    /\ io[1].perm = 0
    /\ Frame = <<first_byte, 128, 86, 130, 0, 0>>

\* C4: for decoded buttons u, d in 0..15, u # d gives base opcode 7,
\* payload u*16+d and a zero third byte, and (payload / 16, payload % 16)
\* is (u, d); u = d gives base opcode 8 with payload u, never opcode 7.
C4_ManualEncoding ==
    (i >= 1 /\ err = "none" /\ IsManual(argvi)
        /\ arg1 \in 0..15 /\ arg2 \in 0..15) =>
        /\ Len(Frame) = 6
        /\ arg1 # arg2 =>
              /\ Frame[4] % 128 = 7
              /\ Frame[5] = arg1 * 16 + arg2
              /\ Frame[6] = 0
              /\ <<Frame[5] \div 16, Frame[5] % 16>> = <<arg1, arg2>>
        /\ arg1 = arg2 =>
              /\ Frame[4] % 128 = 8
              /\ Frame[5] = arg1
              /\ Frame[6] = 0

\* the shared button at the top of the range: manual=15,15 (or manual=15)
\* written as the persistent toggle opcode 8 with payload 15
C4_Witness ==
    /\ i = 1
    /\ err = "none"
    /\ IsManual(argvi)
    /\ arg1 = 15
    /\ arg2 = 15
    /\ Frame[4] = 136
    /\ Frame[5] = 15

\* C5: for both query kinds and whatever the other bytes are, a response
\* whose byte 1 (after the leading byte is dropped) is not 0x81 is
\* rejected: the frame is printed as a bad answer and neither a wheel mode
\* nor a battery level is printed.
C5_Byte1Rejected ==
    (i >= 1 /\ top >= 0 /\ res[1] # 129) => out = <<"bad answer">>

\* a battery response that only byte 1 spoils
C5_Witness ==
    /\ i = 1
    /\ IsBatteryQuery(argvi)
    /\ res[0] = 1
    /\ res[1] = 128
    /\ res[2] = 13
    /\ out = <<"bad answer">>

\* the device calls a token's command makes
ExpectedOps(tok) ==
    IF IsModeQuery(tok) \/ IsBatteryQuery(tok) THEN <<"write", "read">>
    ELSE IF strneq(tok, S_query) THEN <<"read">>
    ELSE IF strneq(tok, S_sleep) THEN <<>>
    ELSE <<"write">>

\* C6: a token that decodes has its command attempted exactly once, after
\* the commands of the tokens before it and whatever their outcome, and the
\* loop goes on: no failed write, failed read or rejected response stops
\* it, and nothing already issued is issued again.
C6_EveryCommandOnce ==
    [][(i' = i + 1 /\ err' = "none") =>
          /\ pc' = "run"
          /\ SubSeq(io', 1, Len(io)) = io
          /\ \A k \in 1..Len(io) : io[k].i <= i
          /\ OpsOf(io', i') = ExpectedOps(argvi')
          /\ Len(io') = Len(io) + Len(ExpectedOps(argvi'))]_vars

\* a second command issued after the first command's write failed and its
\* response was rejected
C6_Witness ==
    /\ i = 2
    /\ pc = "run"
    /\ Len(io) = 3
    /\ io[1].i = 1 /\ ~io[1].ok
    /\ io[2].i = 1 /\ ~io[2].ok
    /\ io[3].i = 2

(***************************************************************************)
(* The calls of twoargs in configure: the argument text, the default and   *)
(* the bounds of each token that takes two arguments.                      *)
(***************************************************************************)
ArgTextOf(tok) ==
    IF IsManual(tok) THEN Skip(TokenBody(tok), 6)
    ELSE IF IsAuto(tok) THEN Skip(TokenBody(tok), 4)
    ELSE IF IsSoftFree(tok) THEN Skip(tok, 9)
    ELSE Skip(tok, 5)

DefOf(tok) ==
    IF strneq(tok, S_query) THEN -1 ELSE IF strneq(tok, S_sleep) THEN 1 ELSE 0

MaxOf(tok) == IF IsManual(tok) THEN 15 ELSE IF IsAuto(tok) THEN 50 ELSE 255

DecText == [v \in Nums |-> Dec(v)]

\* the text after the first value of "=v..." and what strtol made of v
FirstNumber(text) == strtol(Tail(text))
AfterFirst(text) == Skip(Tail(text), FirstNumber(text).used)
SecondNumber(text) == strtol(Tail(AfterFirst(text)))
AfterSecond(text) == Skip(Tail(AfterFirst(text)), SecondNumber(text).used)

\* no number was given in the slot, or one inside the bounds
SlotFine(r, hi) == r.used = 0 \/ (0 <= r.n /\ r.n <= hi)

\* a number was given in the slot and lies outside the bounds
SlotOutside(r, hi) == r.used > 0 /\ (r.n < 0 \/ r.n > hi)

ParsePairHolds(text, def, hi) ==
    /\ text = <<>> => (err = "none" /\ arg1 = def /\ arg2 = def)
    /\ \A v \in Nums :
          (text = <<"=">> \o DecText[v] /\ v <= hi) =>
              (err = "none" /\ arg1 = v /\ arg2 = v)
    /\ \A v1 \in Nums :
          strneq(text, <<"=">> \o DecText[v1] \o <<",">>) =>
              \A v2 \in Nums :
                  (Skip(text, Len(DecText[v1]) + 2) = DecText[v2]
                      /\ v1 <= hi /\ v2 <= hi) =>
                      (err = "none" /\ arg1 = v1 /\ arg2 = v2)
    /\ (text # <<>> /\ Head(text) # "=") => err = "bad argument"
    /\ (text # <<>> /\ Head(text) = "=" /\ SlotFine(FirstNumber(text), hi)
          /\ AfterFirst(text) # <<>>) =>
          /\ Head(AfterFirst(text)) # "," => err = "bad argument"
          /\ (Head(AfterFirst(text)) = ","
                /\ SlotFine(SecondNumber(text), hi)
                /\ AfterSecond(text) # <<>>) => err = "malformed argument"

\* C7: twoargs on an argument text with default def: the empty text gives
\* (def, def); "=v" gives (v, v); "=v1,v2" gives (v1, v2); a text that does
\* not start with "=", a second part that does not start with ",", and
\* text left after the second value are fatal.
C7_ParsePair ==
    i >= 1 => ParsePairHolds(ArgTextOf(argvi), DefOf(argvi), MaxOf(argvi))

\* the same for the calls whose default is not negative (every call but
\* the one of the query token)
C7_NonNegativeDefault ==
    (i >= 1 /\ DefOf(argvi) >= 0) =>
        ParsePairHolds(ArgTextOf(argvi), DefOf(argvi), MaxOf(argvi))

\* C8: a manual frame carries buttons in 0..15 and an auto frame speeds in
\* 0..50, unclamped and unwrapped, and a token with a number outside the
\* bounds of its slot (negative and above 255 included) ends in the fatal
\* out-of-range error without a frame written.
C8_NoClampNoWrap ==
    (i >= 1 /\ (IsManual(argvi) \/ IsAuto(argvi))) =>
        /\ err = "none" =>
              /\ arg1 \in 0..MaxOf(argvi)
              /\ arg2 \in 0..MaxOf(argvi)
              /\ IsAuto(argvi) => (Frame[5] = arg1 /\ Frame[6] = arg2)
              /\ (IsManual(argvi) /\ arg1 # arg2) =>
                    (Frame[5] \div 16 = arg1 /\ Frame[5] % 16 = arg2)
              /\ (IsManual(argvi) /\ arg1 = arg2) => Frame[5] = arg1
        /\ LET text == ArgTextOf(argvi)
               hi == MaxOf(argvi)
           IN  (text # <<>> /\ Head(text) = "=") =>
                   /\ SlotOutside(FirstNumber(text), hi) =>
                         (err = "out of range" /\ io = <<>> /\ sent = <<>>)
                   /\ (SlotFine(FirstNumber(text), hi)
                         /\ AfterFirst(text) # <<>>
                         /\ Head(AfterFirst(text)) = ","
                         /\ SlotOutside(SecondNumber(text), hi)) =>
                         (err = "out of range" /\ io = <<>> /\ sent = <<>>)

\* manual=256: the number would wrap to the valid button 0
C8_Witness ==
    /\ i = 1
    /\ argvi = S_manual \o <<"=", "2", "5", "6">>
    /\ pc = "fatal"
    /\ err = "out of range"
    /\ io = <<>>

\* C9: during a mode or battery query every index of the response buffer
\* that the read stores at or the echo-strip loop reads or writes is in
\* 0..5.
C9_InsideBuffer == top <= 5

\* C10: the query token without arguments reads report 0x10 with length 6
\* (at most 7 bytes asked for) and prints exactly 6 bytes.
C10_QueryDefault ==
    (i >= 1 /\ argvi = S_query /\ err = "none") =>
        (out = <<"report", 16, 6>> /\ rdlen <= 7)

=============================================================================
